---- MODULE Spec2Model ----
(***************************************************************************)
(* Two sensor drivers over a register-addressed two-wire bus.              *)
(*                                                                         *)
(*  - BME280Sensor (src/src/scd41_rp.rs): setup() / read() with a stored   *)
(*    calibration table.  Every bus transaction and every timer delay of   *)
(*    the current call is appended to `log`, so that ordering and          *)
(*    "no transaction after a failure" can be stated over the log.         *)
(*  - SCD41Sensor (exported by src/src/lib.rs, body not in the tree): the  *)
(*    non-blocking acquisition state machine of the CO2 device.            *)
(***************************************************************************)
EXTENDS Integers, Sequences, FiniteSets, TLC

VARIABLES
    \* ---- BME280Sensor ----
    calibration_registers, \* Option<CalibrationRegisters>: <<>> = None, <<b1, b2>> = Some
    pc,                    \* position of the running setup() call, "idle" between calls
    cfg_step,              \* index of the next write inside set_sampling_configuration
    sampling_configuration,\* argument of the running setup() call
    data,                  \* local buffer of read_coefficients: <<first block, second block>>
    elapsed,               \* ms spent inside with_timeout(1 s, ...)
    log,                   \* bus transactions and timer delays of the current / last call
    last_op,               \* "none" | "setup" | "read"
    ret,                   \* result of the last completed call
    cal_at_call,           \* history: calibration_registers when the current call began
    setup_ok_ever,         \* history: some setup() call has returned Ok
    \* ---- SCD41Sensor ----
    state,                 \* AcquisitionState
    next_eligible_time,    \* NextEligibleTime (ms)
    cache,                 \* Option<SCD41Response>: <<>> = None, <<co2, t, h>> = Some
    now,                   \* the monotonic clock (ms)
    scd_log,               \* bus transactions of the last read() call
    scd_ret,               \* result of the last read() call
    scd_pre,               \* history: driver state and clock when the last read() began
    data_ready_seen        \* history: some ReadData call has found the data ready

bme_vars == <<calibration_registers, pc, cfg_step, sampling_configuration, data,
              elapsed, log, last_op, ret, cal_at_call, setup_ok_ever>>
scd_vars == <<state, next_eligible_time, cache, now, scd_log, scd_ret, scd_pre,
              data_ready_seen>>
vars == <<bme_vars, scd_vars>>

(***************************************************************************)
(* Bounds of the model                                                     *)
(***************************************************************************)
\* calibration block contents are drawn from 1..MaxBlock
MaxBlock == 2
\* a completed status poll takes between MaxBusMs - BusJitterMs and MaxBusMs ms
\* (a slow, clock-stretched bus: fewer polls fit into the 1 s window)
MaxBusMs == 90

(***************************************************************************)
(* Program constants                                                       *)
(***************************************************************************)
ExpectedChipId == 96          \* 0x60
SoftResetCommand == 134       \* 0x86
ResetSettleMs == 10
PollTimeoutMs == 1000
PollDelayMs == 10
FinalSettleMs == 100
CalibBusyBit == 3             \* status & (1 << 3)

BME280_REGISTER_CHIPID == "CHIPID"
BME280_REGISTER_SOFTRESET == "SOFTRESET"
BME280_REGISTER_STATUS == "STATUS"
BME280_REGISTER_CONTROL == "CONTROL"
BME280_REGISTER_CONTROLHUMID == "CONTROLHUMID"
BME280_REGISTER_CONFIG == "CONFIG"
BME280_REGISTER_DATA_START == "DATA_START"
DigFirstBase == "0x88"
DigSecondBase == "0xE1"
BME280_REGISTER_DIG_FIRST_LENGTH == 26
BME280_REGISTER_DIG_SECOND_LENGTH == 7
BME280_REGISTER_DATA_LENGTH == 8

(***************************************************************************)
(* Inputs: what the device and the transport may answer                    *)
(***************************************************************************)
Outcomes == {"ok", "err"}
ChipIds == {ExpectedChipId, 88, 0}
StatusValues == {0, 1, 8}
Blocks == 1..MaxBlock
BusJitterMs == 10
BusDurations == {MaxBusMs - BusJitterMs, MaxBusMs}
DataBuffers == { <<0, 0, 0, 0, 0, 0, 0, 0>>,
                 <<128, 0, 0, 128, 0, 0, 128, 0>>,
                 <<255, 255, 255, 255, 255, 255, 255, 255>>,
                 <<81, 35, 160, 126, 237, 16, 101, 90>> }

\* SensorMode as u8
SensorMode_Sleep == 0
SensorMode_Forced == 1
SensorMode_Normal == 3

\* SamplingConfiguration values handed to setup(): oversampling codes per axis
\* (Skip = 0, X1 = 1, X2 = 2, X4 = 3, X8 = 4, X16 = 5), mode, filter, standby.
SamplingConfigurations ==
    { [t |-> 3, p |-> 3, h |-> 3, mode |-> SensorMode_Normal, filter |-> 3, standby |-> 5],
      [t |-> 1, p |-> 0, h |-> 5, mode |-> SensorMode_Forced, filter |-> 0, standby |-> 0] }

\* SamplingConfiguration::to_low_level_configuration: (config, ctrl_meas, ctrl_hum)
to_low_level_configuration(c) ==
    << c.standby * 32 + c.filter * 4,
       c.t * 32 + c.p * 4 + c.mode,
       c.h >>

(***************************************************************************)
(* Log entries                                                             *)
(***************************************************************************)
\* i2c.write_read(address, [reg], buf[0..len]); bytes is what was read
\* (a calibration block is abbreviated to its one-element identity)
WriteRead(reg, len, bytes, res) ==
    [op |-> "write_read", reg |-> reg, len |-> len, bytes |-> bytes, res |-> res, ms |-> 0]
\* i2c.write(address, [reg, val])
Write(reg, val, res) ==
    [op |-> "write", reg |-> reg, len |-> 0, bytes |-> <<val>>, res |-> res, ms |-> 0]
\* Timer::after(ms)
Delay(ms) ==
    [op |-> "delay", reg |-> "", len |-> 0, bytes |-> <<>>, res |-> "ok", ms |-> ms]

\* Result values; every field is always present so that results compare.
Result(tag) == [tag |-> tag, chip |-> 0, resp |-> <<>>]
InvalidChipId(v) == [tag |-> "InvalidChipId", chip |-> v, resp |-> <<>>]
OkResponse(r) == [tag |-> "Response", chip |-> 0, resp |-> r]

(***************************************************************************)
(* BME280Sensor                                                            *)
(***************************************************************************)
Shl(x, n) == x * (2 ^ n)
Shr(x, n) == x \div (2 ^ n)
Bit(x, n) == Shr(x, n) % 2

\* u32 bitwise or of operands whose set bits do not overlap is their sum;
\* where they could overlap the or is computed bit by bit.
RECURSIVE BitOr(_, _)
BitOr(a, b) ==
    IF a = 0 THEN b
    ELSE IF b = 0 THEN a
    ELSE (IF a % 2 = 1 \/ b % 2 = 1 THEN 1 ELSE 0) + 2 * BitOr(a \div 2, b \div 2)

\* mutant: the busy flag is looked for in bit 0 (the "measuring" bit)
is_reading_calibration_Bit0(status) == Bit(status, 0) # 0

\* is_reading_calibration(): (status & (1 << 3)) != 0
is_reading_calibration(status) == Bit(status, CalibBusyBit) # 0

\* mutant: a transport error is mapped to Ok(())
Failed_Never(res) == FALSE

\* i2c_write_read() / i2c_write(): Err(_) => Err(BME280Error::I2CError), which
\* every caller but the polling loop propagates with `?`
Failed(res) == res = "err"

\* mutant: the BMP280 identity 0x58 is accepted as well
ChipIdValid_AlsoBmp280(chip_id) == chip_id \in {ExpectedChipId, 88}

\* setup(): chip_id != 0x60 is rejected
ChipIdValid(chip_id) == chip_id = ExpectedChipId

\* mutant: a failed poll is retried after the delay instead of ending the loop
PollVerdict_RetryOnError(res, status) ==
    IF res = "ok"
    THEN IF Bit(status, CalibBusyBit) # 0 THEN "again" ELSE "break"
    ELSE "again"

\* setup(), the match inside the polling loop: Ok(true) waits 10 ms and polls
\* again, Ok(false) and Err(_) both break
PollVerdict(res, status) ==
    IF res = "ok"
    THEN IF is_reading_calibration(status) THEN "again" ELSE "break"
    ELSE "break"

\* mutant: the parsed table is not kept
StoreCoefficients_Dropped(d) == <<>>

\* read_coefficients(): self.calibration_registers = Some(data.into())
StoreCoefficients(d) == d

\* mutant: humidity-control is written after the final measurement-control
ConfigWrites_HumidityLast(c) ==
    LET ll == to_low_level_configuration(c) IN
    << <<BME280_REGISTER_CONTROL, SensorMode_Sleep>>,
       <<BME280_REGISTER_CONFIG, ll[1]>>,
       <<BME280_REGISTER_CONTROL, ll[2]>>,
       <<BME280_REGISTER_CONTROLHUMID, ll[3]>> >>

\* set_sampling_configuration(): the four register writes, in program order
ConfigWrites(c) ==
    LET ll == to_low_level_configuration(c) IN
    << <<BME280_REGISTER_CONTROL, SensorMode_Sleep>>,
       <<BME280_REGISTER_CONTROLHUMID, ll[3]>>,
       <<BME280_REGISTER_CONFIG, ll[1]>>,
       <<BME280_REGISTER_CONTROL, ll[2]>> >>

\* `as i32` of a u32: the 32 bits reinterpreted as two's complement
AsI32(x) == IF x > 2147483647 THEN (x - 2147483647) - 2147483647 - 2 ELSE x
\* `as u16` of a u32: the low 16 bits
AsU16(x) == x % 65536

\* mutant: the low byte of the pressure is not shifted down
AdcP_XlsbUnshifted(buf) == BitOr(BitOr(Shl(buf[1], 12), Shl(buf[2], 4)), buf[3])

\* read(): packing of the 8-byte buffer (0-based d[i] is buf[i + 1])
AdcP(buf) == BitOr(BitOr(Shl(buf[1], 12), Shl(buf[2], 4)), Shr(buf[3], 4))
AdcT(buf) == BitOr(BitOr(Shl(buf[4], 12), Shl(buf[5], 4)), Shr(buf[6], 4))
AdcH(buf) == BitOr(Shl(buf[7], 8), buf[8])

\* mutant: missing coefficients are replaced by zeroes instead of an error
ReadResult_Unchecked(cr, buf) ==
    OkResponse(<<AsI32(AdcT(buf)), AdcP(buf), AsU16(AdcH(buf))>>
               \o (IF cr # <<>> THEN cr ELSE <<0, 0>>))

\* read(): the result once the burst read has succeeded.  The response is
\* abstracted to the inputs of the compensation: raw counts and coefficients.
ReadResult(cr, buf) ==
    IF cr # <<>>
    THEN OkResponse(<<AsI32(AdcT(buf)), AdcP(buf), AsU16(AdcH(buf))>> \o cr)
    ELSE Result("NotCalibrated")

\* A call returns r: the driver is idle again, locals are dropped.
Return(r) ==
    /\ pc' = "idle"
    /\ ret' = r
    /\ cfg_step' = 0
    /\ data' = <<0, 0>>
    /\ elapsed' = 0
    /\ setup_ok_ever' = (setup_ok_ever \/ (last_op' = "setup" /\ r.tag = "Ok"))

Continue(next_pc) ==
    /\ pc' = next_pc
    /\ UNCHANGED <<ret, setup_ok_ever>>

DefaultConfiguration ==
    [t |-> 3, p |-> 3, h |-> 3, mode |-> SensorMode_Normal, filter |-> 3, standby |-> 5]

BmeInit ==
    /\ calibration_registers = <<>>
    /\ pc = "idle"
    /\ cfg_step = 0
    /\ sampling_configuration = DefaultConfiguration
    /\ data = <<0, 0>>
    /\ elapsed = 0
    /\ log = <<>>
    /\ last_op = "none"
    /\ ret = Result("None")
    /\ cal_at_call = <<>>
    /\ setup_ok_ever = FALSE

\* mutant: setup() drops the stored coefficients when it starts
SetupChipId_ClearsCalibration(c, res, chip_id) ==
    /\ UNCHANGED scd_vars
    /\ pc = "idle"
    /\ res = "err" => chip_id = 0
    /\ last_op' = "setup"
    /\ sampling_configuration' = c
    /\ cal_at_call' = calibration_registers
    /\ log' = <<WriteRead(BME280_REGISTER_CHIPID, 1, <<chip_id>>, res)>>
    /\ calibration_registers' = <<>>
    /\ IF res = "err" THEN Return(Result("I2CError"))
       ELSE IF chip_id # ExpectedChipId THEN Return(InvalidChipId(chip_id))
       ELSE /\ pc' = "reset"
            /\ ret' = Result("Pending")
            /\ UNCHANGED <<cfg_step, data, elapsed, setup_ok_ever>>

\* setup(), lines 28-35: the call begins with the chip-id read
SetupChipId(c, res, chip_id) ==
    /\ UNCHANGED scd_vars
    /\ pc = "idle"
    /\ res = "err" => chip_id = 0
    /\ last_op' = "setup"
    /\ sampling_configuration' = c
    /\ cal_at_call' = calibration_registers
    /\ log' = <<WriteRead(BME280_REGISTER_CHIPID, 1, <<chip_id>>, res)>>
    /\ UNCHANGED calibration_registers
    /\ IF Failed(res) THEN Return(Result("I2CError"))
       ELSE IF ~ChipIdValid(chip_id) THEN Return(InvalidChipId(chip_id))
       ELSE /\ pc' = "reset"
            /\ ret' = Result("Pending")
            /\ UNCHANGED <<cfg_step, data, elapsed, setup_ok_ever>>

\* mutant: the settle delay after the soft reset is left out
SetupSoftReset_NoSettle(res) ==
    /\ UNCHANGED scd_vars
    /\ pc = "reset"
    /\ UNCHANGED <<calibration_registers, last_op, sampling_configuration, cal_at_call>>
    /\ log' = Append(log, Write(BME280_REGISTER_SOFTRESET, SoftResetCommand, res))
    /\ IF Failed(res)
       THEN Return(Result("I2CError"))
       ELSE Continue("poll") /\ UNCHANGED <<cfg_step, data, elapsed>>

\* setup(), lines 36-38: soft reset, then the 10 ms settle delay
SetupSoftReset(res) ==
    /\ UNCHANGED scd_vars
    /\ pc = "reset"
    /\ UNCHANGED <<calibration_registers, last_op, sampling_configuration, cal_at_call>>
    /\ IF Failed(res)
       THEN /\ log' = Append(log, Write(BME280_REGISTER_SOFTRESET, SoftResetCommand, res))
            /\ Return(Result("I2CError"))
       ELSE /\ log' = log \o << Write(BME280_REGISTER_SOFTRESET, SoftResetCommand, res),
                                Delay(ResetSettleMs) >>
            /\ Continue("poll")
            /\ UNCHANGED <<cfg_step, data, elapsed>>

\* setup(), lines 39-55: one status poll that completes inside the 1 s window
SetupPoll(res, status, d) ==
    /\ UNCHANGED scd_vars
    /\ pc = "poll"
    /\ elapsed + d <= PollTimeoutMs
    /\ res = "err" => status = 0
    /\ UNCHANGED <<calibration_registers, last_op, sampling_configuration, cal_at_call>>
    /\ LET poll == WriteRead(BME280_REGISTER_STATUS, 1, <<status>>, res) IN
       IF PollVerdict(res, status) = "again"
       THEN IF elapsed + d + PollDelayMs <= PollTimeoutMs
            THEN /\ log' = log \o <<poll, Delay(PollDelayMs)>>
                 /\ elapsed' = elapsed + d + PollDelayMs
                 /\ Continue("poll")
                 /\ UNCHANGED <<cfg_step, data>>
            ELSE \* the window ends during the 10 ms timer
                 /\ log' = Append(log, poll)
                 /\ Return(Result("Timeout"))
       ELSE \* busy bit clear, or the poll failed: leave the loop
            /\ log' = Append(log, poll)
            /\ elapsed' = 0
            /\ Continue("coef1")
            /\ UNCHANGED <<cfg_step, data>>

\* mutant: the expiry of the window does not end a poll that is in flight
SetupPollTimeout_Ignored(d) ==
    /\ pc = "poll"
    /\ elapsed + d > PollTimeoutMs
    /\ UNCHANGED vars

\* setup(), lines 39-58: the window ends while a status poll is in flight
SetupPollTimeout(d) ==
    /\ UNCHANGED scd_vars
    /\ pc = "poll"
    /\ elapsed + d > PollTimeoutMs
    /\ UNCHANGED <<calibration_registers, last_op, sampling_configuration, cal_at_call>>
    /\ log' = Append(log, WriteRead(BME280_REGISTER_STATUS, 1, <<0>>, "cancelled"))
    /\ Return(Result("Timeout"))

\* mutant: the table is stored as soon as the first block has been read
ReadCoefficientsFirst_StoresEarly(res, b) ==
    /\ UNCHANGED scd_vars
    /\ pc = "coef1"
    /\ res = "err" => b = 0
    /\ UNCHANGED <<last_op, sampling_configuration, cal_at_call>>
    /\ log' = Append(log, WriteRead(DigFirstBase, BME280_REGISTER_DIG_FIRST_LENGTH, <<b>>, res))
    /\ IF res = "err"
       THEN Return(Result("I2CError")) /\ UNCHANGED calibration_registers
       ELSE /\ data' = <<b, data[2]>>
            /\ calibration_registers' = <<b, data[2]>>
            /\ pc' = "coef2"
            /\ UNCHANGED <<cfg_step, elapsed, ret, setup_ok_ever>>

\* read_coefficients(), lines 73-75: the 26-byte block
ReadCoefficientsFirst(res, b) ==
    /\ UNCHANGED scd_vars
    /\ pc = "coef1"
    /\ res = "err" => b = 0
    /\ UNCHANGED <<calibration_registers, last_op, sampling_configuration, cal_at_call>>
    /\ log' = Append(log, WriteRead(DigFirstBase, BME280_REGISTER_DIG_FIRST_LENGTH, <<b>>, res))
    /\ IF Failed(res) THEN Return(Result("I2CError"))
       ELSE /\ data' = <<b, data[2]>>
            /\ Continue("coef2")
            /\ UNCHANGED <<cfg_step, elapsed>>

\* mutant: a failed 7-byte read stores the new first block with a zeroed second
ReadCoefficientsSecond_StoresPartial(res, b) ==
    /\ UNCHANGED scd_vars
    /\ pc = "coef2"
    /\ res = "err" => b = 0
    /\ UNCHANGED <<last_op, sampling_configuration, cal_at_call>>
    /\ log' = Append(log, WriteRead(DigSecondBase, BME280_REGISTER_DIG_SECOND_LENGTH, <<b>>, res))
    /\ calibration_registers' = <<data[1], b>>
    /\ IF res = "err"
       THEN Return(Result("I2CError"))
       ELSE /\ data' = <<data[1], b>>
            /\ cfg_step' = 1
            /\ pc' = "cfg"
            /\ UNCHANGED <<elapsed, ret, setup_ok_ever>>

\* read_coefficients(), lines 76-85: the 7-byte block, then the store
ReadCoefficientsSecond(res, b) ==
    /\ UNCHANGED scd_vars
    /\ pc = "coef2"
    /\ res = "err" => b = 0
    /\ UNCHANGED <<last_op, sampling_configuration, cal_at_call>>
    /\ log' = Append(log, WriteRead(DigSecondBase, BME280_REGISTER_DIG_SECOND_LENGTH, <<b>>, res))
    /\ IF Failed(res)
       THEN /\ Return(Result("I2CError"))
            /\ UNCHANGED calibration_registers
       ELSE /\ calibration_registers' = StoreCoefficients(<<data[1], b>>)
            /\ data' = <<data[1], b>>
            /\ cfg_step' = 1
            /\ Continue("cfg")
            /\ UNCHANGED elapsed

\* set_sampling_configuration(), lines 88-103, and setup() lines 63-64
SetSamplingConfigurationWrite(res) ==
    /\ UNCHANGED scd_vars
    /\ pc = "cfg"
    /\ UNCHANGED <<calibration_registers, last_op, sampling_configuration, cal_at_call>>
    /\ LET w == ConfigWrites(sampling_configuration)[cfg_step] IN
       IF Failed(res)
       THEN /\ log' = Append(log, Write(w[1], w[2], res))
            /\ Return(Result("I2CError"))
       ELSE IF cfg_step < 4
       THEN /\ log' = Append(log, Write(w[1], w[2], res))
            /\ cfg_step' = cfg_step + 1
            /\ Continue("cfg")
            /\ UNCHANGED <<data, elapsed>>
       ELSE /\ log' = log \o <<Write(w[1], w[2], res), Delay(FinalSettleMs)>>
            /\ Return(Result("Ok"))

\* mutant: the calibration is checked before the bus is touched
Read_ChecksCalibrationFirst(res, buf) ==
    /\ UNCHANGED scd_vars
    /\ pc = "idle"
    /\ res = "err" => buf = <<0, 0, 0, 0, 0, 0, 0, 0>>
    /\ last_op' = "read"
    /\ cal_at_call' = calibration_registers
    /\ UNCHANGED <<calibration_registers, sampling_configuration>>
    /\ IF calibration_registers = <<>>
       THEN log' = <<>> /\ Return(Result("NotCalibrated"))
       ELSE /\ log' = <<WriteRead(BME280_REGISTER_DATA_START, BME280_REGISTER_DATA_LENGTH,
                                  buf, res)>>
            /\ IF Failed(res) THEN Return(Result("I2CError"))
               ELSE Return(ReadResult(calibration_registers, buf))

\* read(), lines 105-138
Read(res, buf) ==
    /\ UNCHANGED scd_vars
    /\ pc = "idle"
    /\ res = "err" => buf = <<0, 0, 0, 0, 0, 0, 0, 0>>
    /\ last_op' = "read"
    /\ cal_at_call' = calibration_registers
    /\ log' = <<WriteRead(BME280_REGISTER_DATA_START, BME280_REGISTER_DATA_LENGTH, buf, res)>>
    /\ UNCHANGED <<calibration_registers, sampling_configuration>>
    /\ IF Failed(res) THEN Return(Result("I2CError"))
       ELSE Return(ReadResult(calibration_registers, buf))

Next ==
    \/ \E c \in SamplingConfigurations, res \in Outcomes, v \in ChipIds \cup {0} :
           SetupChipId(c, res, v)
    \/ \E res \in Outcomes : SetupSoftReset(res)
    \/ \E res \in Outcomes, s \in StatusValues, d \in BusDurations : SetupPoll(res, s, d)
    \/ \E d \in BusDurations \cup {PollTimeoutMs + 1} : SetupPollTimeout(d)
    \/ \E res \in Outcomes, b \in Blocks \cup {0} : ReadCoefficientsFirst(res, b)
    \/ \E res \in Outcomes, b \in Blocks \cup {0} : ReadCoefficientsSecond(res, b)
    \/ \E res \in Outcomes : SetSamplingConfigurationWrite(res)
    \/ \E res \in Outcomes, buf \in DataBuffers : Read(res, buf)

(***************************************************************************)
(* SCD41Sensor: the acquisition state machine                              *)
(***************************************************************************)
\* model bounds of the clock
TickMs == 500
MaxNow == 9000

StopMeasurementCmd == <<63, 134>>      \* {0x3f, 0x86}
ReinitCmd == <<54, 70>>                \* {0x36, 0x46}
StartMeasurementCmd == <<33, 177>>     \* {0x21, 0xb1}
DataReadyStatusCmd == <<228, 184>>     \* {0xe4, 0xb8}
ReadMeasurementCmd == <<236, 5>>       \* {0xec, 0x05}
ScdResponseLength == 9
SettleDelayMs == 1000
NotReadyDelayMs == 1000
ReadyDelayMs == 5000

\* pub enum SCD41Error, and the tag of an Ok(SCD41Response)
SCD41Error == {"NoData", "I2CError", "Timeout"}
SCD41Response == "Response"

States == <<"Initial", "StopMeasurement", "Reinit", "StartMeasurement", "ReadData">>
Rank(s) == CHOOSE i \in 1..Len(States) : States[i] = s

\* mutant: the reinit step is left out of the table
NextState_SkipsReinit(s) ==
    CASE s = "Initial" -> "StopMeasurement"
      [] s = "StopMeasurement" -> "StartMeasurement"
      [] s = "Reinit" -> "StartMeasurement"
      [] s = "StartMeasurement" -> "ReadData"
      [] s = "ReadData" -> "ReadData"

\* the transition table: the state entered when a step completes
NextState(s) ==
    CASE s = "Initial" -> "StopMeasurement"
      [] s = "StopMeasurement" -> "Reinit"
      [] s = "Reinit" -> "StartMeasurement"
      [] s = "StartMeasurement" -> "ReadData"
      [] s = "ReadData" -> "ReadData"

\* the command written by a state's step (ReadData: its first transaction)
StateCommand(s) ==
    CASE s = "StopMeasurement" -> StopMeasurementCmd
      [] s = "Reinit" -> ReinitCmd
      [] s = "StartMeasurement" -> StartMeasurementCmd
      [] s = "ReadData" -> DataReadyStatusCmd
      [] s = "Initial" -> <<>>

\* what the device may answer to the data-ready status command
StatusResponses == { <<0, 0, 129, 0, 0, 0, 0, 0, 0>>,
                     <<128, 0, 162, 0, 0, 0, 0, 0, 0>>,
                     <<128, 6, 4, 0, 0, 0, 0, 0, 0>> }
\* what the device may answer to the read-measurement command; the last
\* buffer carries a wrong checksum byte in its first word
MeasurementBuffers == { <<3, 232, 212, 106, 86, 226, 128, 0, 162>>,
                        <<1, 244, 51, 102, 103, 162, 94, 185, 60>>,
                        <<3, 232, 0, 106, 86, 226, 128, 0, 162>> }

\* integrity check: CRC-8, polynomial 0x31, initial value 0xFF, byte by byte,
\* most significant bit first
Crc8Polynomial == 49
Crc8Init == 255

RECURSIVE BitXor(_, _)
BitXor(a, b) ==
    IF a = 0 THEN b
    ELSE IF b = 0 THEN a
    ELSE ((a + b) % 2) + 2 * BitXor(a \div 2, b \div 2)

RECURSIVE Crc8Shift(_, _)
Crc8Shift(crc, n) ==
    IF n = 0 THEN crc
    ELSE Crc8Shift(IF crc >= 128 THEN BitXor((crc * 2) % 256, Crc8Polynomial)
                   ELSE (crc * 2) % 256,
                   n - 1)

RECURSIVE Crc8From(_, _)
Crc8From(crc, bytes) ==
    IF bytes = <<>> THEN crc
    ELSE Crc8From(Crc8Shift(BitXor(crc, Head(bytes)), 8), Tail(bytes))

crc8(bytes) == Crc8From(Crc8Init, bytes)

\* the checksum byte of each of the three words of a measurement matches
ChecksumsValid(buf) ==
    \A w \in {0, 3, 6} : crc8(<<buf[w + 1], buf[w + 2]>>) = buf[w + 3]

ScdWrite(cmd, res) ==
    [op |-> "write", cmd |-> cmd, len |-> 0, bytes |-> <<>>, res |-> res]
ScdWriteRead(cmd, bytes, res) ==
    [op |-> "write_read", cmd |-> cmd, len |-> ScdResponseLength, bytes |-> bytes, res |-> res]

\* mutant: the comparison of the gate check is inverted
Gated_Inverted(t, nxt) == t > nxt

\* gate check: the current time is before NextEligibleTime
Gated(t, nxt) == t < nxt

\* mutant: readiness is taken from byte[0]
DataReady_Byte0(status) == status[1] # 0

\* readiness = byte[1] != 0
DataReady(status) == status[2] # 0

Word(buf, i) == buf[i + 1] * 256 + buf[i + 2]

\* decode: co2 in ppm, temperature and humidity in hundredths
\* (-45 + 175 * raw / 65535 and 100 * raw / 65535)
Decode(buf) ==
    << Word(buf, 0),
       (17500 * Word(buf, 3)) \div 65535 - 4500,
       (10000 * Word(buf, 6)) \div 65535 >>

\* a step that changes nothing but reports r
Keep(st, nxt, ca, l, r) ==
    [state |-> st, next |-> nxt, cache |-> ca, log |-> l, ret |-> r]

\* mutant: the state is advanced before the command is known to have succeeded
FailureOutcome_Advances(st, nxt, ca, l) ==
    [state |-> NextState(st), next |-> nxt, cache |-> ca, log |-> l,
     ret |-> Result("I2CError")]

\* a transport failure: propagated as I2CError, the driver left as it was
FailureOutcome(st, nxt, ca, l) == Keep(st, nxt, ca, l, Result("I2CError"))

\* a completed warm-up step: next state, re-armed gate, NoData
Advance(st, t, ca, l) ==
    [state |-> NextState(st), next |-> t + SettleDelayMs, cache |-> ca,
     log |-> l, ret |-> Result("NoData")]

\* read() at time t on a driver in (st, nxt, ca): the new driver state, the
\* bus transactions issued and the result.  r1, status: outcome and answer of
\* the state's first transaction; r2, buf: those of the measurement read.
ReadOutcome(st, nxt, ca, t, r1, status, r2, buf) ==
    IF Gated(t, nxt)
    THEN Keep(st, nxt, ca, <<>>, IF ca # <<>> THEN OkResponse(ca) ELSE Result("NoData"))
    ELSE IF st = "Initial" THEN Advance(st, t, ca, <<>>)
    ELSE IF st # "ReadData"
    THEN IF r1 = "err"
         THEN FailureOutcome(st, nxt, ca, <<ScdWrite(StateCommand(st), "err")>>)
         ELSE Advance(st, t, ca, <<ScdWrite(StateCommand(st), "ok")>>)
    ELSE IF r1 = "err"
    THEN FailureOutcome(st, nxt, ca, <<ScdWriteRead(DataReadyStatusCmd, <<>>, "err")>>)
    ELSE IF ~DataReady(status)
    THEN [state |-> st, next |-> t + NotReadyDelayMs, cache |-> ca,
          log |-> <<ScdWriteRead(DataReadyStatusCmd, status, "ok")>>,
          ret |-> Result("NoData")]
    ELSE IF r2 = "err"
    THEN FailureOutcome(st, nxt, ca, <<ScdWriteRead(DataReadyStatusCmd, status, "ok"),
                                       ScdWriteRead(ReadMeasurementCmd, <<>>, "err")>>)
    ELSE [state |-> st, next |-> t + ReadyDelayMs, cache |-> Decode(buf),
          log |-> <<ScdWriteRead(DataReadyStatusCmd, status, "ok"),
                    ScdWriteRead(ReadMeasurementCmd, buf, "ok")>>,
          ret |-> OkResponse(Decode(buf))]

ScdSnapshot == [state |-> state, next |-> next_eligible_time, cache |-> cache, now |-> now]

ScdRead(r1, status, r2, buf) ==
    /\ UNCHANGED bme_vars
    /\ LET o == ReadOutcome(state, next_eligible_time, cache, now, r1, status, r2, buf) IN
       /\ state' = o.state
       /\ next_eligible_time' = o.next
       /\ cache' = o.cache
       /\ scd_log' = o.log
       /\ scd_ret' = o.ret
       /\ data_ready_seen' =
              (data_ready_seen \/ \E i \in 1..Len(o.log) :
                                     o.log[i].cmd = ReadMeasurementCmd)
    /\ scd_pre' = ScdSnapshot
    /\ UNCHANGED now

\* the clock advances between calls
Tick ==
    /\ now + TickMs <= MaxNow
    /\ now' = now + TickMs
    /\ UNCHANGED <<state, next_eligible_time, cache, scd_log, scd_ret, scd_pre,
                   data_ready_seen>>
    /\ UNCHANGED bme_vars

\* every result of read() is an SCD41Error or a response
ScdTypeOK == scd_ret.tag \in SCD41Error \cup {SCD41Response, "None"}

ScdInit ==
    /\ state = "Initial"
    /\ next_eligible_time = 0
    /\ cache = <<>>
    /\ now = 0
    /\ scd_log = <<>>
    /\ scd_ret = Result("None")
    /\ scd_pre = [state |-> "Initial", next |-> 0, cache |-> <<>>, now |-> 0]
    /\ data_ready_seen = FALSE

NextSCD ==
    \/ \E r1 \in Outcomes, status \in StatusResponses, r2 \in Outcomes,
          buf \in MeasurementBuffers : ScdRead(r1, status, r2, buf)
    \/ Tick

Init == BmeInit /\ ScdInit

Spec == Init /\ [][Next]_vars

SpecSCD == Init /\ [][NextSCD]_vars

\* read() on a calibrated driver, over a wider set of data buffers
PackBytes == {0, 1, 15, 16, 128, 255}
PackBuffers == { <<a, b, c, c, a, b, b, c>> : a \in PackBytes, b \in PackBytes, c \in PackBytes }

\* the driver after a setup() that returned Ok and a read() of an all-zero buffer
PackInit ==
    /\ ScdInit
    /\ calibration_registers = <<1, 1>>
    /\ cal_at_call = <<1, 1>>
    /\ setup_ok_ever = TRUE
    /\ sampling_configuration = DefaultConfiguration
    /\ pc = "idle"
    /\ cfg_step = 0
    /\ data = <<0, 0>>
    /\ elapsed = 0
    /\ last_op = "read"
    /\ log = <<WriteRead(BME280_REGISTER_DATA_START, BME280_REGISTER_DATA_LENGTH,
                         <<0, 0, 0, 0, 0, 0, 0, 0>>, "ok")>>
    /\ ret = ReadResult(<<1, 1>>, <<0, 0, 0, 0, 0, 0, 0, 0>>)

PackNext == \E res \in Outcomes, buf \in PackBuffers : Read(res, buf)

SpecPack == PackInit /\ [][PackNext]_vars

\* setup() calls alone, with one configuration and one value per coefficient
\* block (neither is looked at by the control flow of setup())
LiveCall ==
    \E res \in Outcomes, v \in ChipIds \cup {0} : SetupChipId(DefaultConfiguration, res, v)

\* the steps of a setup() call in progress: each is a bus transaction that
\* completes (with success or failure) or a timer that fires
LiveStep ==
    \/ \E res \in Outcomes : SetupSoftReset(res)
    \/ \E res \in Outcomes, s \in StatusValues, d \in BusDurations : SetupPoll(res, s, d)
    \/ \E d \in BusDurations \cup {PollTimeoutMs + 1} : SetupPollTimeout(d)
    \/ \E res \in Outcomes : ReadCoefficientsFirst(res, IF res = "ok" THEN 1 ELSE 0)
    \/ \E res \in Outcomes : ReadCoefficientsSecond(res, IF res = "ok" THEN 1 ELSE 0)
    \/ \E res \in Outcomes : SetSamplingConfigurationWrite(res)

LiveNext == LiveCall \/ LiveStep

\* the driver under the assumption that transactions complete and timers fire
SpecLive == Init /\ [][LiveNext]_vars /\ WF_vars(LiveStep)

(***************************************************************************)
(* Helpers of the properties                                               *)
(***************************************************************************)
SetupRunning == last_op = "setup" /\ pc # "idle"
SetupDone == last_op = "setup" /\ pc = "idle"
ReadDone == last_op = "read" /\ pc = "idle"

IsPoll(e) == e.op = "write_read" /\ e.reg = BME280_REGISTER_STATUS
IsCalibRead(e) == e.op = "write_read" /\ e.reg \in {DigFirstBase, DigSecondBase}
IsConfigWrite(e) ==
    e.op = "write" /\ e.reg \in {BME280_REGISTER_CONTROL, BME280_REGISTER_CONTROLHUMID,
                                 BME280_REGISTER_CONFIG}
IsTransaction(e) == e.op # "delay"
\* a poll that completed and showed bit 3 of the status byte set
BusyPoll(e) == IsPoll(e) /\ e.res = "ok" /\ (e.bytes[1] \div 8) % 2 = 1
Transactions == SelectSeq(log, IsTransaction)
ConfigWritesIssued == SelectSeq(log, IsConfigWrite)

(***************************************************************************)
(* C1                                                                      *)
(***************************************************************************)
\* C1 as claimed: while no setup() call has returned Ok, every read() call
\* returns NotCalibrated (never a decoded reading, whatever the burst read did
\* and wherever an earlier setup() failed).
C1_ReadBeforeSetupOk ==
    (ReadDone /\ ~setup_ok_ever) => ret.tag = "NotCalibrated"

\* C1 as amended: while the coefficients have never been stored, which is the
\* case as long as no setup() call has completed both calibration reads,
\* every read() call returns NotCalibrated when its burst read succeeded and
\* I2CError when it failed, and never a decoded reading.
C1_ReadBeforeCoefficients ==
    /\ ( /\ last_op = "setup"
         /\ cal_at_call = <<>>
         /\ ~\E i \in 1..Len(log) : log[i].reg = DigSecondBase /\ log[i].res = "ok" )
       => calibration_registers = <<>>
    /\ (ReadDone /\ cal_at_call = <<>>) =>
          /\ ret.tag = (IF log[1].res = "ok" THEN "NotCalibrated" ELSE "I2CError")
          /\ ret.resp = <<>>

\* a read() after a setup() call that failed before the coefficients were stored
C1_Witness ==
    /\ ReadDone
    /\ ~setup_ok_ever
    /\ cal_at_call = <<>>
    /\ sampling_configuration.mode = SensorMode_Forced
    /\ ret.tag = "NotCalibrated"

(***************************************************************************)
(* C2 - C4: the acquisition state machine                                  *)
(***************************************************************************)
ScdCalled == scd_ret.tag # "None"
\* the last read() call was made at or after NextEligibleTime
WasEligible == scd_pre.now >= scd_pre.next
ScdAllOk == \A i \in 1..Len(scd_log) : scd_log[i].res = "ok"
ScdFailed == \E i \in 1..Len(scd_log) : scd_log[i].res = "err"
Successor(s) == States[IF Rank(s) < 5 THEN Rank(s) + 1 ELSE 5]

\* one step per eligible, successful call, in the order of States
StepsInOrder ==
    /\ state # scd_pre.state =>
          (WasEligible /\ ScdAllOk /\ Rank(state) = Rank(scd_pre.state) + 1)
    /\ (WasEligible /\ ScdAllOk) => state = Successor(scd_pre.state)
    /\ (~WasEligible \/ ~ScdAllOk) => state = scd_pre.state

\* C2 as claimed: states are visited in the order Initial, StopMeasurement,
\* Reinit, StartMeasurement, ReadData, one step per eligible successful call,
\* and every call returns NoData until a ReadData call finds the data ready.
C2_EveryCallNoDataUntilReady ==
    ScdCalled =>
        /\ StepsInOrder
        /\ ~data_ready_seen => scd_ret.tag = "NoData"

\* C2 as amended: the same order of states; until a ReadData call finds the
\* data ready, a call returns NoData when it issued no failing transaction
\* and I2CError when one failed; a reading is returned for the first time by a
\* ReadData call.
C2_WarmUpSequence ==
    ScdCalled =>
        /\ StepsInOrder
        /\ ~data_ready_seen =>
              scd_ret.tag = (IF ScdAllOk THEN "NoData" ELSE "I2CError")
        /\ (scd_ret.tag = "Response" /\ scd_pre.cache = <<>>) =>
              (scd_pre.state = "ReadData" /\ state = "ReadData" /\ WasEligible)

C2_Witness ==
    /\ scd_ret.tag = "Response"
    /\ scd_pre.cache = <<>>
    /\ scd_pre.state = "ReadData"
    /\ scd_pre.now = 4 * 1000

\* C3: a read() call made before NextEligibleTime issues no bus transaction,
\* leaves state, NextEligibleTime and cache as they were, and returns the
\* cached reading if there is one and NoData otherwise.
C3_GatedCall ==
    (ScdCalled /\ scd_pre.now < scd_pre.next) =>
        /\ scd_log = <<>>
        /\ state = scd_pre.state
        /\ next_eligible_time = scd_pre.next
        /\ cache = scd_pre.cache
        /\ IF scd_pre.cache # <<>>
           THEN scd_ret.tag = "Response" /\ scd_ret.resp = scd_pre.cache
           ELSE scd_ret.tag = "NoData"

C3_Witness ==
    /\ ScdCalled
    /\ scd_pre.now < scd_pre.next
    /\ scd_pre.cache # <<>>
    /\ scd_ret.tag = "Response"

C3_WitnessNoData ==
    /\ ScdCalled
    /\ scd_pre.now < scd_pre.next
    /\ scd_pre.state = "Reinit"
    /\ scd_ret.tag = "NoData"

ScdReadStep ==
    \E r1 \in Outcomes, status \in StatusResponses, r2 \in Outcomes,
       buf \in MeasurementBuffers : ScdRead(r1, status, r2, buf)

\* a failed transaction is the call's last one, the call returns I2CError and
\* leaves the driver as it was, still eligible
FailureLeavesDriver ==
    /\ (ScdCalled /\ ScdFailed) =>
          /\ scd_log[Len(scd_log)].res = "err"
          /\ scd_ret.tag = "I2CError"
          /\ state = scd_pre.state
          /\ next_eligible_time = scd_pre.next
          /\ cache = scd_pre.cache
          /\ now >= next_eligible_time
    /\ scd_ret.tag = "I2CError" => ScdFailed

\* C4 as claimed: after a failed transaction (of any step, either one of
\* ReadData) read() returns I2CError with the state unchanged, and the next
\* read() call issues the command that failed again.
C4_FailedCommandReissued ==
    /\ []FailureLeavesDriver
    /\ [][(scd_ret.tag = "I2CError" /\ ScdReadStep) =>
             \E i \in 1..Len(scd_log') :
                 scd_log'[i].cmd = scd_log[Len(scd_log)].cmd]_vars

\* C4 as amended: after a failed transaction read() returns I2CError with the
\* state unchanged, and the next read() call starts the same state's step
\* again from its first transaction: the command that failed for
\* StopMeasurement, Reinit, StartMeasurement and the status read of ReadData,
\* the data-ready status command when the measurement read of ReadData failed.
C4_FailedStepRetried ==
    /\ []FailureLeavesDriver
    /\ [][(scd_ret.tag = "I2CError" /\ ScdReadStep) =>
             /\ scd_log' # <<>>
             /\ scd_log'[1].cmd = scd_log[1].cmd
             /\ scd_log'[1].op = scd_log[1].op
             /\ scd_pre'.state = scd_pre.state
             /\ Len(scd_log) = 1 => scd_log'[1].cmd = scd_log[Len(scd_log)].cmd]_vars

C4_Witness ==
    /\ scd_ret.tag = "I2CError"
    /\ Len(scd_log) = 2
    /\ scd_log[2].cmd = <<236, 5>>
    /\ state = "ReadData"
    /\ cache # <<>>

C4_WitnessWarmUp ==
    /\ scd_ret.tag = "I2CError"
    /\ state = "Reinit"
    /\ scd_log = <<ScdWrite(<<54, 70>>, "err")>>

(***************************************************************************)
(* C5                                                                      *)
(***************************************************************************)
\* C5: the configuration writes of a setup() call are, in this order,
\* measurement-control := Sleep, humidity-control, config, measurement-control
\* := requested value; the sequence stops at the first failed write, so the
\* humidity-control write always precedes the final measurement-control write.
C5_ConfigWriteOrder ==
    last_op = "setup" =>
        LET w == ConfigWritesIssued
            ll == to_low_level_configuration(sampling_configuration)
            reg == << BME280_REGISTER_CONTROL, BME280_REGISTER_CONTROLHUMID,
                      BME280_REGISTER_CONFIG, BME280_REGISTER_CONTROL >>
            val == << SensorMode_Sleep, ll[3], ll[1], ll[2] >>
        IN  /\ Len(w) <= 4
            /\ \A i \in 1..Len(w) :
                  /\ w[i].reg = reg[i]
                  /\ w[i].bytes = <<val[i]>>
                  /\ i < Len(w) => w[i].res = "ok"
            /\ (SetupDone /\ ret.tag = "Ok") =>
                  (Len(w) = 4 /\ \A i \in 1..4 : w[i].res = "ok")
            \* the configuration writes are the tail of the call's transactions
            /\ \A i \in 1..Len(w) :
                  Transactions[Len(Transactions) - Len(w) + i] = w[i]

C5_Witness ==
    /\ SetupDone /\ ret.tag = "Ok"
    /\ Len(ConfigWritesIssued) = 4
    /\ ConfigWritesIssued[4].bytes # ConfigWritesIssued[1].bytes
    /\ sampling_configuration.mode = SensorMode_Forced

(***************************************************************************)
(* C6                                                                      *)
(***************************************************************************)
\* C6: a setup() call whose status polls all report the calibration-busy bit
\* until the 1 s window is over returns Timeout; it has issued no calibration
\* read and no configuration write and the stored coefficients are those of
\* before the call.
C6_BusyUntilTimeout ==
    /\ ( /\ last_op = "setup"
         /\ pc \notin {"reset", "poll"}
         /\ \E i \in 1..Len(log) : log[i].reg = BME280_REGISTER_SOFTRESET /\ log[i].res = "ok"
         /\ \A i \in 1..Len(log) : IsPoll(log[i]) => (BusyPoll(log[i]) \/ log[i].res = "cancelled") )
       => (pc = "idle" /\ ret.tag = "Timeout")
    /\ (SetupDone /\ ret.tag = "Timeout")
       => /\ \A i \in 1..Len(log) : ~IsCalibRead(log[i]) /\ ~IsConfigWrite(log[i])
          /\ \A i \in 1..Len(log) : IsPoll(log[i]) => (BusyPoll(log[i]) \/ log[i].res = "cancelled")
          /\ calibration_registers = cal_at_call

C6_Witness ==
    /\ SetupDone /\ ret.tag = "Timeout"
    /\ Len(SelectSeq(log, BusyPoll)) >= 3
    /\ cal_at_call # <<>>
    /\ calibration_registers = cal_at_call

(***************************************************************************)
(* C7                                                                      *)
(***************************************************************************)
\* C7: a failed status poll ends the polling loop: it is the last poll of the
\* call, it is not returned to the caller, and the next transaction is the
\* 26-byte calibration read, exactly as after a poll that read the busy bit
\* clear; every other failed transaction of setup() is the call's last one
\* and makes it return I2CError.
C7_PollFailureIsSwallowed ==
    last_op = "setup" =>
        LET t == Transactions IN
        /\ \A i \in 1..Len(t) :
              (IsPoll(t[i]) /\ (t[i].res = "err" \/ (t[i].res = "ok" /\ ~BusyPoll(t[i])))) =>
                  IF i = Len(t)
                  THEN pc = "coef1" /\ ret.tag = "Pending"
                  ELSE /\ t[i + 1].op = "write_read"
                       /\ t[i + 1].reg = DigFirstBase
                       /\ t[i + 1].len = BME280_REGISTER_DIG_FIRST_LENGTH
        /\ \A i \in 1..Len(t) :
              (t[i].res = "err" /\ ~IsPoll(t[i])) =>
                  (i = Len(t) /\ pc = "idle" /\ ret.tag = "I2CError")
        /\ (SetupDone /\ ret.tag = "I2CError") =>
              (t[Len(t)].res = "err" /\ ~IsPoll(t[Len(t)]))

C7_Witness ==
    /\ SetupDone /\ ret.tag = "Ok"
    /\ \E i \in 1..Len(log) : IsPoll(log[i]) /\ log[i].res = "err"
    /\ \E i \in 1..Len(log) : BusyPoll(log[i])

(***************************************************************************)
(* C8                                                                      *)
(***************************************************************************)
\* C8: when the chip-id read succeeds with a value v other than 0x60,
\* setup() returns InvalidChipId(v) and that read is its only transaction.
C8_InvalidChipId ==
    ( /\ last_op = "setup"
      /\ log[1].res = "ok"
      /\ log[1].bytes # <<96>> )
    => /\ pc = "idle"
       /\ ret.tag = "InvalidChipId"
       /\ <<ret.chip>> = log[1].bytes
       /\ Len(log) = 1
       /\ log[1].op = "write_read" /\ log[1].reg = BME280_REGISTER_CHIPID
       /\ calibration_registers = cal_at_call

C8_Witness ==
    /\ SetupDone
    /\ ret.tag = "InvalidChipId" /\ ret.chip = 88
    /\ Len(log) = 1

(***************************************************************************)
(* C9                                                                      *)
(***************************************************************************)
\* C9: in setup(), a failed transaction other than a status poll is the last
\* entry of the call's log (not retried, nothing issued after it) and the
\* call has returned I2CError.
C9_FailureEndsSetup ==
    last_op = "setup" =>
        \A i \in 1..Len(log) :
            (log[i].res = "err" /\ ~IsPoll(log[i])) =>
                /\ i = Len(log)
                /\ pc = "idle"
                /\ ret.tag = "I2CError"
                /\ \A j \in 1..(i - 1) : log[j].res = "ok" \/ IsPoll(log[j])

\* every kind of non-poll transaction can be the failing one
C9_Witness ==
    /\ SetupDone /\ ret.tag = "I2CError"
    /\ Len(ConfigWritesIssued) = 3
    /\ log[Len(log)].res = "err"
    /\ log[Len(log)].reg = BME280_REGISTER_CONFIG

(***************************************************************************)
(* C10                                                                     *)
(***************************************************************************)
\* C10: read() returns a decoded reading only if the coefficients are stored,
\* and they are stored only by a call that completed the 26-byte and then the
\* 7-byte calibration read; with no coefficients stored and a successful data
\* read, read() returns NotCalibrated and converts nothing.
C10_DecodeOnlyWhenCalibrated ==
    /\ calibration_registers # cal_at_call =>
          /\ last_op = "setup"
          /\ \E i \in 1..(Len(log) - 1) :
                /\ log[i] = WriteRead(DigFirstBase, 26, <<calibration_registers[1]>>, "ok")
                /\ log[i + 1] = WriteRead(DigSecondBase, 7, <<calibration_registers[2]>>, "ok")
    /\ ReadDone =>
          /\ ret.tag = "Response" =>
                /\ cal_at_call # <<>>
                /\ log[1].res = "ok"
                /\ SubSeq(ret.resp, 4, 5) = cal_at_call
          /\ (cal_at_call = <<>> /\ log[1].res = "ok") =>
                (ret.tag = "NotCalibrated" /\ ret.resp = <<>>)

C10_Witness ==
    /\ ReadDone
    /\ cal_at_call = <<>>
    /\ log[1].res = "ok"
    /\ log[1].bytes = <<81, 35, 160, 126, 237, 16, 101, 90>>
    /\ ret.tag = "NotCalibrated"

C10_WitnessDecoded ==
    /\ ReadDone
    /\ ret.tag = "Response"
    /\ cal_at_call = <<2, 1>>

(***************************************************************************)
(* C11                                                                     *)
(***************************************************************************)
\* C11: every read() call issues exactly one bus transaction, a write-read of
\* 8 bytes at the pressure-data register, calibrated or not; when it fails
\* the call returns I2CError and no reading.
C11_ReadIssuesOneBurst ==
    ReadDone =>
        /\ Len(log) = 1
        /\ log[1].op = "write_read"
        /\ log[1].reg = BME280_REGISTER_DATA_START
        /\ log[1].len = 8
        /\ log[1].res = "err" => (ret.tag = "I2CError" /\ ret.resp = <<>>)
        /\ log[1].res = "ok" => ret.tag \in {"Response", "NotCalibrated"}
        /\ calibration_registers = cal_at_call

C11_Witness ==
    /\ ReadDone
    /\ cal_at_call = <<>>
    /\ Len(log) = 1
    /\ log[1].res = "err"
    /\ ret.tag = "I2CError"

C11_WitnessCalibrated ==
    /\ ReadDone
    /\ cal_at_call # <<>>
    /\ log[1].res = "err"
    /\ ret.tag = "I2CError"

(***************************************************************************)
(* C12                                                                     *)
(***************************************************************************)
\* the entries between the reset's settle delay and the calibration reads:
\* polls that read the busy bit set, each followed by the 10 ms delay, then
\* one last poll (busy bit clear, or failed)
PollSection(s) ==
    /\ Len(s) % 2 = 1
    /\ \A i \in 1..Len(s) :
          IF i % 2 = 0 THEN s[i] = Delay(10)
          ELSE /\ IsPoll(s[i]) /\ s[i].len = 1
               /\ IF i < Len(s) THEN BusyPoll(s[i])
                  ELSE s[i].res = "err" \/ (s[i].res = "ok" /\ ~BusyPoll(s[i]))

\* C12: the log of a setup() call that returned Ok is: chip-id read, write
\* of 0x86 to the reset register, 10 ms delay, one or more status polls
\* 10 ms apart, 26-byte read at 0x88, 7-byte read at 0xE1, the four
\* configuration writes, 100 ms delay.
C12_SetupOkSequence ==
    (SetupDone /\ ret.tag = "Ok") =>
        LET n == Len(log) IN
        /\ n >= 11
        /\ log[1] = WriteRead(BME280_REGISTER_CHIPID, 1, <<96>>, "ok")
        /\ log[2] = Write(BME280_REGISTER_SOFTRESET, 134, "ok")
        /\ log[3] = Delay(10)
        /\ PollSection(SubSeq(log, 4, n - 7))
        /\ log[n - 6].op = "write_read" /\ log[n - 6].reg = DigFirstBase
        /\ log[n - 6].len = 26 /\ log[n - 6].res = "ok"
        /\ log[n - 5].op = "write_read" /\ log[n - 5].reg = DigSecondBase
        /\ log[n - 5].len = 7 /\ log[n - 5].res = "ok"
        /\ \A i \in 1..4 : IsConfigWrite(log[n - 5 + i]) /\ log[n - 5 + i].res = "ok"
        /\ log[n] = Delay(100)

C12_Witness ==
    /\ SetupDone /\ ret.tag = "Ok"
    /\ Len(SelectSeq(log, IsPoll)) >= 3
    /\ log[Len(log)].op = "delay"

(***************************************************************************)
(* C13                                                                     *)
(***************************************************************************)
\* the call read a measurement whose checksum bytes do not all match
MismatchRead ==
    /\ ScdCalled
    /\ Len(scd_log) = 2
    /\ scd_log[2].cmd = ReadMeasurementCmd
    /\ scd_log[2].res = "ok"
    /\ ~ChecksumsValid(scd_log[2].bytes)

\* C13: when a checksum byte of a measurement does not match the CRC-8 of its
\* two data bytes, read() returns an error other than NoData, I2CError and
\* Timeout, and the measurement is neither returned nor cached.
C13_MismatchIsIntegrityError ==
    MismatchRead =>
        /\ scd_ret.tag \notin {"NoData", "I2CError", "Timeout", "Response"}
        /\ cache = scd_pre.cache

(***************************************************************************)
(* C14                                                                     *)
(***************************************************************************)
\* position of a step in setup(); idle, the return, comes last
StageRank(p) ==
    CASE p = "reset" -> 1
      [] p = "poll" -> 2
      [] p = "coef1" -> 3
      [] p = "coef2" -> 4
      [] p = "cfg" -> 5
      [] p = "idle" -> 6

\* a step of a running setup() moves forward, except a poll that read the
\* busy bit set inside the window and a configuration write that is not the
\* last of the four
SetupProgress ==
    pc # "idle" =>
        \/ StageRank(pc') > StageRank(pc)
        \/ /\ pc = "poll" /\ pc' = "poll"
           /\ elapsed' > elapsed /\ elapsed' <= PollTimeoutMs
           /\ BusyPoll(log'[Len(log') - 1])
        \/ /\ pc = "cfg" /\ pc' = "cfg"
           /\ cfg_step' = cfg_step + 1 /\ cfg_step' <= 4

\* C14: every setup() call eventually returns when transactions complete and
\* timers fire; the busy-poll loop is the only loop, and it is left on a clear
\* busy bit, on a transport failure or when the 1 s window expires.
C14_SetupReturns ==
    /\ (pc # "idle") ~> (pc = "idle")
    /\ [][SetupProgress]_vars
    /\ [](pc = "poll" => elapsed <= 1000)

C14_Witness ==
    /\ SetupDone /\ ret.tag = "Timeout"
    /\ Len(SelectSeq(log, BusyPoll)) >= 10
    /\ log[Len(log)].res = "cancelled"

(***************************************************************************)
(* C15                                                                     *)
(***************************************************************************)
\* an eligible call on a driver in ReadData whose status read succeeded
ReadDataCall ==
    /\ ScdCalled
    /\ scd_pre.state = "ReadData"
    /\ WasEligible
    /\ Len(scd_log) >= 1
    /\ scd_log[1].cmd = DataReadyStatusCmd
    /\ scd_log[1].res = "ok"

ReportsReady == scd_log[1].bytes[2] # 0

\* the not-ready branch: no measurement read, NoData, cache kept, 1000 ms
NotReadyBranch ==
    (ReadDataCall /\ ~ReportsReady) =>
        /\ Len(scd_log) = 1
        /\ scd_ret = Result("NoData")
        /\ cache = scd_pre.cache
        /\ next_eligible_time = scd_pre.now + 1000

\* the measurement was read, cached, returned, and the gate set 5000 ms ahead
MeasurementServed ==
    /\ Len(scd_log) = 2
    /\ scd_log[2].op = "write_read"
    /\ scd_log[2].cmd = ReadMeasurementCmd
    /\ scd_log[2].res = "ok"
    /\ cache = Decode(scd_log[2].bytes)
    /\ scd_ret = OkResponse(cache)
    /\ next_eligible_time = scd_pre.now + 5000

\* C15 as claimed: ReadData is never left; a not-ready status gives NoData,
\* an unchanged cache and a 1000 ms re-arm; every ready status gives a cached
\* and returned measurement and a 5000 ms re-arm.
C15_ReadyAlwaysServes ==
    /\ [](NotReadyBranch /\ ((ReadDataCall /\ ReportsReady) => MeasurementServed))
    /\ [][state = "ReadData" => state' = "ReadData"]_vars

\* C15 as amended: the same, the ready branch for a measurement read that
\* succeeds; when the measurement read fails the call returns I2CError and
\* leaves cache and NextEligibleTime as they were.
C15_ReadDataLoop ==
    /\ []NotReadyBranch
    /\ []((ReadDataCall /\ ReportsReady) =>
            /\ Len(scd_log) = 2
            /\ scd_log[2].cmd = ReadMeasurementCmd
            /\ IF scd_log[2].res = "ok" THEN MeasurementServed
               ELSE /\ scd_ret = Result("I2CError")
                    /\ cache = scd_pre.cache
                    /\ next_eligible_time = scd_pre.next)
    /\ [][state = "ReadData" => state' = "ReadData"]_vars

C15_Witness ==
    /\ ReadDataCall /\ ~ReportsReady
    /\ scd_pre.cache # <<>>
    /\ scd_ret.tag = "NoData"

C15_WitnessReady ==
    /\ ReadDataCall /\ ReportsReady
    /\ scd_pre.cache # <<>>
    /\ MeasurementServed
    /\ cache # scd_pre.cache

(***************************************************************************)
(* C16                                                                     *)
(***************************************************************************)
\* C16: once a setup() call has returned Ok the coefficients are stored, and
\* no later read() returns NotCalibrated, whatever calls follow.
C16_CalibratedForGood ==
    setup_ok_ever =>
        /\ calibration_registers # <<>>
        /\ ReadDone => ret.tag # "NotCalibrated"

C16_Witness ==
    /\ setup_ok_ever
    /\ ReadDone
    /\ ret.tag = "Response"
    /\ ret.resp # <<>>

C16_WitnessAfterFailedSetup ==
    /\ setup_ok_ever
    /\ SetupDone
    /\ ret.tag \in {"I2CError", "Timeout", "InvalidChipId"}
    /\ calibration_registers # <<>>

(***************************************************************************)
(* C17                                                                     *)
(***************************************************************************)
\* the call's log holds both calibration reads, both succeeded, and the
\* stored table is made of exactly their two blocks
StoredFromBothReads ==
    \E i \in 1..(Len(log) - 1) :
        /\ log[i].op = "write_read" /\ log[i].reg = DigFirstBase /\ log[i].res = "ok"
        /\ log[i + 1].op = "write_read" /\ log[i + 1].reg = DigSecondBase
        /\ log[i + 1].res = "ok"
        /\ calibration_registers = <<log[i].bytes[1], log[i + 1].bytes[1]>>

CalibReadFailed ==
    \E i \in 1..Len(log) : IsCalibRead(log[i]) /\ log[i].res # "ok"

\* C17: during and after a setup() call the stored coefficients either are
\* what they were before the call or are the table built from both blocks
\* this call read successfully; when either calibration read fails they are
\* what they were before the call.
C17_CoefficientsReplacedWhole ==
    last_op = "setup" =>
        /\ calibration_registers = cal_at_call \/ StoredFromBothReads
        /\ pc \in {"reset", "poll", "coef1", "coef2"} => calibration_registers = cal_at_call
        /\ CalibReadFailed => calibration_registers = cal_at_call
        /\ pc = "cfg" => StoredFromBothReads

C17_Witness ==
    /\ SetupDone /\ ret.tag = "I2CError"
    /\ log[Len(log)].reg = DigSecondBase
    /\ log[Len(log)].res = "err"
    /\ cal_at_call # <<>>
    /\ log[Len(log) - 1].bytes[1] # cal_at_call[1]
    /\ calibration_registers = cal_at_call

C17_WitnessFirstFails ==
    /\ SetupDone /\ ret.tag = "I2CError"
    /\ log[Len(log)].reg = DigFirstBase
    /\ cal_at_call = <<>>
    /\ calibration_registers = <<>>

(***************************************************************************)
(* C18                                                                     *)
(***************************************************************************)
\* a setup() call that ended before its calibration reads
EndedBeforeCalibration ==
    /\ SetupDone
    /\ \A i \in 1..Len(log) : ~IsCalibRead(log[i])

\* C18: read() leaves the stored coefficients as they were, whatever it
\* returns; a setup() that ends before its calibration reads (wrong chip id,
\* reset failure, timeout) leaves them as they were; and no step of any
\* operation takes the coefficients from populated to unpopulated.
C18_CoefficientsKept ==
    /\ [](ReadDone => calibration_registers = cal_at_call)
    /\ [](EndedBeforeCalibration => calibration_registers = cal_at_call)
    /\ [](SetupDone /\ ret.tag \in {"InvalidChipId", "Timeout"} => EndedBeforeCalibration)
    /\ [][calibration_registers # <<>> => calibration_registers' # <<>>]_vars

C18_Witness ==
    /\ SetupDone /\ ret.tag = "InvalidChipId"
    /\ setup_ok_ever
    /\ cal_at_call # <<>>
    /\ calibration_registers = cal_at_call

C18_WitnessRead ==
    /\ ReadDone /\ ret.tag = "I2CError"
    /\ setup_ok_ever
    /\ calibration_registers # <<>>

(***************************************************************************)
(* C19                                                                     *)
(***************************************************************************)
\* C19: for the buffer d of a read() that decoded, the raw pressure is
\* d[0]*4096 + d[1]*16 + (d[2] div 16), the raw temperature
\* d[3]*4096 + d[4]*16 + (d[5] div 16) and the raw humidity d[6]*256 + d[7],
\* also after the casts to i32 and u16; pressure and temperature lie in
\* 0..2^20-1 and humidity in 0..65535.
C19_RawValuesPacked ==
    (ReadDone /\ ret.tag = "Response") =>
        LET d == log[1].bytes
            adc_t == ret.resp[1]
            adc_p == ret.resp[2]
            adc_h == ret.resp[3]
        IN /\ adc_p = d[1] * 4096 + d[2] * 16 + (d[3] \div 16)
           /\ adc_t = d[4] * 4096 + d[5] * 16 + (d[6] \div 16)
           /\ adc_h = d[7] * 256 + d[8]
           /\ adc_p \in 0..1048575
           /\ adc_t \in 0..1048575
           /\ adc_h \in 0..65535

C19_Witness ==
    /\ ReadDone /\ ret.tag = "Response"
    /\ log[1].bytes = <<255, 255, 255, 255, 255, 255, 255, 255>>
    /\ ret.resp[1] = 1048575
    /\ ret.resp[2] = 1048575
    /\ ret.resp[3] = 65535

C19_WitnessMixed ==
    /\ ReadDone /\ ret.tag = "Response"
    /\ log[1].bytes = <<1, 16, 255, 255, 1, 16, 16, 255>>
    /\ ret.resp[2] = 4096 + 256 + 15

====
